---- MODULE Spec2Model ----
(***************************************************************************)
(* Model of src/AS/bls_data.py: the three pipeline stages clean_data,      *)
(* BG_ONET_BGTocc_mapping and merge_data.                                  *)
(*                                                                         *)
(* A text value is a sequence of one-character strings, so that            *)
(* str.strip() and str.lower() are computed character by character.        *)
(* A pandas table is a sequence of records (one record per row, one field  *)
(* per column); the occupations table also carries its column set, because *)
(* merge_data assigns a column to it.                                      *)
(***************************************************************************)
EXTENDS Naturals, Sequences, FiniteSets, TLC

VARIABLES pc, df_bls_raw, df_onet_map, df_bls, response, df_map, occu, df, err

vars == <<pc, df_bls_raw, df_onet_map, df_bls, response, df_map, occu, df, err>>

\* ------------------------------------------------------------------ bounds
MaxBlsRows == 2
MaxCrosswalkRows == 2
MaxBindings == 2
MaxGrowthRows == 2
MaxBridgeRows == 2
MaxOccuRows == 2

\* ------------------------------------------------------------------ text
\* pandas' missing value: a text column holds it as NaN/None, a float column as NaN
NaN == <<"NaN">>
NaNf == "NaN"

Whitespace == {" "}
UpperChars == <<"A", "B", "C", "D", "E", "X", "Y">>
LowerChars == <<"a", "b", "c", "d", "e", "x", "y">>

\* str.lower() on one character
LowerChar(c) ==
    IF \E i \in DOMAIN UpperChars : UpperChars[i] = c
    THEN LowerChars[CHOOSE i \in DOMAIN UpperChars : UpperChars[i] = c]
    ELSE c

\* str.lower()
Lower(s) == [i \in DOMAIN s |-> LowerChar(s[i])]

RECURSIVE LStrip(_)
LStrip(s) == IF s # <<>> /\ Head(s) \in Whitespace THEN LStrip(Tail(s)) ELSE s

RECURSIVE RStrip(_)
RStrip(s) ==
    IF s # <<>> /\ s[Len(s)] \in Whitespace THEN RStrip(SubSeq(s, 1, Len(s) - 1)) ELSE s

\* str.strip()
Strip(s) == RStrip(LStrip(s))

\* i.strip().lower(), the cleaning clean_data applies to its three title columns
StripLower(s) == Lower(Strip(s))

\* Series.str.lower(): a missing value stays missing
StrLower(v) == IF v = NaN THEN NaN ELSE Lower(v)

\* ------------------------------------------------------------------ tables
SeqsUpTo(S, n) == UNION {[1..k -> S] : k \in 0..n}

RECURSIVE Concat(_)
Concat(ss) == IF ss = <<>> THEN <<>> ELSE Head(ss) \o Concat(Tail(ss))

\* The rows of `right` whose column `col` holds the key v, in the table's order:
\* the rows DataFrame.merge pairs with a left row of key v (a missing key
\* matches a missing key)
Matching(right, col, v) == SelectSeq(right, LAMBDA r : r[col] = v)

\* ------------------------------------------------------------------ clean_data
\* The sheet "Table 1.2" of occupation.xlsx, as read: one record per row
BlsTypes == {"Line item", "Summary"}
BlsTitles == {<<" ", "A">>, <<"b">>}
BlsGrowths == {"22.0", "5.0"}
BlsRowPool ==
    [Occupation_type : BlsTypes, Matrix_title_2019 : BlsTitles, change_percent : BlsGrowths]

\* 2010_to_2019_Crosswalk.csv, as read
Titles2010 == {<<"X", " ">>, <<"y">>}
Titles2019 == {<<"a">>, <<"B">>, <<"c">>}
CrosswalkRowPool == [Title_2010 : Titles2010, Title_2019 : Titles2019]

\* df_bls.rename(columns={...: "name_2019", ...: "employmentGrowth"})
RenameBls(t) ==
    [i \in DOMAIN t |->
        [Occupation_type |-> t[i].Occupation_type,
         name_2019 |-> t[i].Matrix_title_2019,
         employmentGrowth |-> t[i].change_percent]]

\* Mutant of LineItemRows: the filter forgotten, aggregate rows stay
LineItemRows_unfiltered(t) == t

\* df_bls[df_bls["Occupation type"] == "Line item"]
LineItemRows(t) == SelectSeq(t, LAMBDA r : r.Occupation_type = "Line item")

\* df_bls["name_2019"] = [i.strip().lower() for i in df_bls["name_2019"]]
CleanBlsNames(t) == [i \in DOMAIN t |-> [t[i] EXCEPT !.name_2019 = StripLower(@)]]

\* df_onet_map["name"], df_onet_map["name_2019"]: the two cleaned title columns
CleanCrosswalk(t) ==
    [i \in DOMAIN t |->
        [Title_2010 |-> t[i].Title_2010,
         Title_2019 |-> t[i].Title_2019,
         name |-> StripLower(t[i].Title_2010),
         name_2019 |-> StripLower(t[i].Title_2019)]]

\* Mutant of MergeBlsCrosswalk: the merge taken from the crosswalk's side,
\* df_onet_map.merge(df_bls, on="name_2019", how="left")
MergeBlsCrosswalk_crosswalkLeft(bls, cw) ==
    Concat([i \in DOMAIN cw |->
        LET m == Matching(bls, "name_2019", cw[i].name_2019)
        IN  IF m = <<>>
            THEN <<[name |-> cw[i].name, employmentGrowth |-> NaNf]>>
            ELSE [j \in DOMAIN m |->
                    [name |-> cw[i].name, employmentGrowth |-> m[j].employmentGrowth]]])

\* df_bls.merge(df_onet_map, on="name_2019", how="left")[["name", "employmentGrowth"]]:
\* every agency row in order, once per crosswalk row of the same name_2019, or
\* once with the crosswalk's columns missing
MergeBlsCrosswalk(bls, cw) ==
    Concat([i \in DOMAIN bls |->
        LET m == Matching(cw, "name_2019", bls[i].name_2019)
        IN  IF m = <<>>
            THEN <<[name |-> NaN, employmentGrowth |-> bls[i].employmentGrowth]>>
            ELSE [j \in DOMAIN m |->
                    [name |-> m[j].name, employmentGrowth |-> bls[i].employmentGrowth]]])

\* The table clean_data returns for the sheet `bls` and the crosswalk `cw`
GrowthTable(bls, cw) ==
    MergeBlsCrosswalk(CleanBlsNames(LineItemRows(RenameBls(bls))), CleanCrosswalk(cw))

clean_data ==
    /\ pc = "clean_data"
    /\ df_bls' = GrowthTable(df_bls_raw, df_onet_map)
    /\ pc' = "BG_ONET_BGTocc_mapping"
    /\ UNCHANGED <<df_bls_raw, df_onet_map, response, df_map, occu, df, err>>

\* No occupations table, no response, no bridge and no result yet
NoTable == <<>>
NoFrame == [columns |-> {}, rows |-> <<>>]
NoResponse == [sent |-> FALSE]

InitClean ==
    /\ pc = "clean_data"
    /\ df_bls_raw \in SeqsUpTo(BlsRowPool, MaxBlsRows)
    /\ df_onet_map \in SeqsUpTo(CrosswalkRowPool, MaxCrosswalkRows)
    /\ df_bls = NoTable
    /\ response = NoResponse
    /\ df_map = NoTable
    /\ occu = NoFrame
    /\ df = NoTable
    /\ err = "none"

NextClean == clean_data

SpecClean == InitClean /\ [][NextClean]_vars

\* ---- claims about clean_data (checked under SpecClean)
Cleaned == pc = "BG_ONET_BGTocc_mapping"

IsLineItem(i) == df_bls_raw[i].Occupation_type = "Line item"

\* agency row i and crosswalk entry j carry the same title once both are cleaned
TitlesMatch(i, j) ==
    StripLower(df_bls_raw[i].Matrix_title_2019) = StripLower(df_onet_map[j].Title_2019)

LineItemMatches == {p \in (DOMAIN df_bls_raw) \X (DOMAIN df_onet_map) :
                        IsLineItem(p[1]) /\ TitlesMatch(p[1], p[2])}

UnmatchedLineItems == {i \in DOMAIN df_bls_raw :
                        IsLineItem(i) /\ \A j \in DOMAIN df_onet_map : ~TitlesMatch(i, j)}

UnmatchedCrosswalk == {j \in DOMAIN df_onet_map :
                        \A i \in DOMAIN df_bls_raw : ~(IsLineItem(i) /\ TitlesMatch(i, j))}

\* C3 (as stated): the growth table has one row per crosswalk entry, and a
\* crosswalk entry whose cleaned 2019 title matches no line-item agency row
\* still appears in it, with its 2010 title and a missing employmentGrowth.
C3_CrosswalkLeftJoin ==
    Cleaned =>
        /\ Len(df_bls) = Len(df_onet_map)
        /\ \A j \in UnmatchedCrosswalk :
              \E k \in DOMAIN df_bls :
                 df_bls[k] = [name |-> StripLower(df_onet_map[j].Title_2010),
                              employmentGrowth |-> NaNf]

\* C3 (amended): the growth table has one row per pair of a line-item agency
\* row and a crosswalk entry with the same cleaned 2019 title, plus one row
\* per line-item agency row that matches no crosswalk entry; the latter
\* carries the row's growth and a missing name, and a 2010 title appears only
\* with the growth of a line-item row it matches.
C3_AgencyLeftJoin ==
    Cleaned =>
        /\ Len(df_bls) = Cardinality(LineItemMatches) + Cardinality(UnmatchedLineItems)
        /\ \A i \in UnmatchedLineItems :
              \E k \in DOMAIN df_bls :
                 df_bls[k] = [name |-> NaN,
                              employmentGrowth |-> df_bls_raw[i].change_percent]
        /\ \A k \in DOMAIN df_bls :
              df_bls[k].name # NaN =>
                 \E p \in LineItemMatches :
                    df_bls[k] = [name |-> StripLower(df_onet_map[p[2]].Title_2010),
                                 employmentGrowth |-> df_bls_raw[p[1]].change_percent]

\* C3 witness: clean_data has run on a sheet with a line-item row no crosswalk
\* entry matches and a crosswalk with an entry no line-item row matches
C3_Witness ==
    /\ Cleaned
    /\ UnmatchedLineItems # {}
    /\ UnmatchedCrosswalk # {}
    /\ LineItemMatches # {}

\* C9: every row of the growth table takes its growth from a line-item agency
\* row (one with the row's cleaned 2019 title when the row has a name); an
\* aggregate row contributes neither a row nor a growth value.
C9_LeafOnly ==
    Cleaned =>
        /\ Len(df_bls) <= Cardinality(LineItemMatches) + Cardinality(UnmatchedLineItems)
        /\ \A k \in DOMAIN df_bls :
              \E i \in DOMAIN df_bls_raw :
                 /\ IsLineItem(i)
                 /\ df_bls[k].employmentGrowth = df_bls_raw[i].change_percent
                 /\ df_bls[k].name # NaN =>
                       \E j \in DOMAIN df_onet_map :
                          /\ TitlesMatch(i, j)
                          /\ df_bls[k].name = StripLower(df_onet_map[j].Title_2010)

\* C9 witness: the sheet holds an aggregate row whose cleaned title is a
\* crosswalk 2019 title and whose growth no line-item row has, next to a
\* line-item row that did reach the growth table
C9_Witness ==
    /\ Cleaned
    /\ df_bls # <<>>
    /\ \E a \in DOMAIN df_bls_raw :
          /\ ~IsLineItem(a)
          /\ \E j \in DOMAIN df_onet_map : TitlesMatch(a, j)
          /\ \A i \in DOMAIN df_bls_raw :
                IsLineItem(i) => df_bls_raw[i].change_percent # df_bls_raw[a].change_percent

\* ------------------------------------------------------------------ BG_ONET_BGTocc_mapping
\* A key the JSON document does not hold
Absent == <<"(absent)">>

RawOnetNames == {<<"A">>, <<"a", " ">>}
RawBgtOccNames == {<<"C">>, <<" ", "c">>}

\* One element of response["results"]["bindings"]: the "value" under each key
BindingPool == [OnetName : RawOnetNames \cup {Absent}, BgtOccName : RawBgtOccNames \cup {Absent}]

\* response.text: not JSON at all, JSON without "results", JSON whose "results"
\* holds no "bindings", or the expected shape
BodyPool ==
    {[kind |-> "not json"], [kind |-> "no results"], [kind |-> "no bindings"]}
    \cup {[kind |-> "bindings", bindings |-> b] : b \in SeqsUpTo(BindingPool, MaxBindings)}

HttpStatuses == {200, 500}

\* What requests.request meets: no connection, or a response with a status and a body
ResponsePool ==
    {[sent |-> TRUE, connected |-> FALSE]}
    \cup {[sent |-> TRUE, connected |-> TRUE, status |-> st, body |-> b] :
             st \in HttpStatuses, b \in BodyPool}

\* The first exception lines 95-102 raise on the response r, "none" when they run through
FetchError(r) ==
    IF ~r.connected THEN "ConnectionError"
    ELSE IF r.body.kind = "not json" THEN "JSONDecodeError"
    ELSE IF r.body.kind \in {"no results", "no bindings"} THEN "KeyError"
    ELSE IF \E i \in DOMAIN r.body.bindings :
               r.body.bindings[i].OnetName = Absent \/ r.body.bindings[i].BgtOccName = Absent
         THEN "KeyError"
    ELSE "none"

\* i["OnetName"]["value"].lower()
BridgeName(v) == Lower(v)

\* The DataFrame of lines 98-106: columns onet and bgtocc
BridgeTable(bindings) ==
    [i \in DOMAIN bindings |->
        [onet |-> BridgeName(bindings[i].OnetName),
         bgtocc |-> BridgeName(bindings[i].BgtOccName)]]

BG_ONET_BGTocc_mapping ==
    /\ pc = "BG_ONET_BGTocc_mapping"
    /\ \E r \in ResponsePool :
          /\ response' = r
          /\ err' = FetchError(r)
          /\ IF FetchError(r) = "none"
             THEN df_map' = BridgeTable(r.body.bindings) /\ pc' = "merge_data"
             ELSE df_map' = df_map /\ pc' = "raised"
    /\ UNCHANGED <<df_bls_raw, df_onet_map, df_bls, occu, df>>

InitFetch ==
    /\ pc = "BG_ONET_BGTocc_mapping"
    /\ df_bls_raw = NoTable
    /\ df_onet_map = NoTable
    /\ df_bls = NoTable
    /\ response = NoResponse
    /\ df_map = NoTable
    /\ occu = NoFrame
    /\ df = NoTable
    /\ err = "none"

NextFetch == BG_ONET_BGTocc_mapping

SpecFetch == InitFetch /\ [][NextFetch]_vars

\* ---- claims about BG_ONET_BGTocc_mapping (checked under SpecFetch)
Fetched == response.sent

ReturnedBridge == Fetched /\ pc = "merge_data"

\* The failures the claim names: no connection, a status outside 2xx, a body
\* that is not JSON or lacks one of the four keys
FetchFailure ==
    \/ ~response.connected
    \/ response.status \notin 200..299
    \/ response.body.kind # "bindings"
    \/ \E i \in DOMAIN response.body.bindings :
          response.body.bindings[i].OnetName = Absent
          \/ response.body.bindings[i].BgtOccName = Absent

\* C6 (as stated): whenever the HTTP call fails, the status is not 2xx or the
\* JSON lacks an expected key, the fetch ends in an error (the claim names it
\* RemoteServiceError; any raised exception is accepted here) and hands no
\* bridge table, partial or empty, on to the Reconciler.
C6_FailureIsError ==
    (Fetched /\ FetchFailure) => (pc = "raised" /\ err # "none" /\ df_map = NoTable)

\* C4 (as stated, for the Bridge Fetcher): every label of the returned bridge
\* is the received label both trimmed and lowercased.
C4_BridgeNormalized ==
    ReturnedBridge =>
        \A i \in DOMAIN df_map :
           /\ df_map[i].onet = StripLower(response.body.bindings[i].OnetName)
           /\ df_map[i].bgtocc = StripLower(response.body.bindings[i].BgtOccName)

\* ------------------------------------------------------------------ merge_data
\* Rows clean_data can return: a cleaned 2010 title and a growth figure
GrowthNames == {<<"a">>, <<"b">>}
GrowthValues == {"22.0", "5.0"}
GrowthRowPool == [name : GrowthNames, employmentGrowth : GrowthValues]

\* Rows BG_ONET_BGTocc_mapping can return: two lowercased labels
BridgeRowPool ==
    {[onet |-> <<"a">>, bgtocc |-> <<"c">>],
     [onet |-> <<"b">>, bgtocc |-> <<"c">>],
     [onet |-> <<"b">>, bgtocc |-> <<"d">>]}

\* Rows of the occupations table, before their position is added as id
OccuNames == {<<"n">>}
OccuLabels == {<<"C">>, <<"e">>}
OccuGrowths == {NaNf, "1.0"}
OccuRowPool == [name : OccuNames, bgtOccInfo : OccuLabels, employmentGrowth : OccuGrowths]
OccuColumns == {"id", "name", "bgtOccInfo", "employmentGrowth"}

OccuFrame(t) ==
    [columns |-> OccuColumns,
     rows |-> [i \in DOMAIN t |->
                 [id |-> i, name |-> t[i].name, bgtOccInfo |-> t[i].bgtOccInfo,
                  employmentGrowth |-> t[i].employmentGrowth]]]

\* df_bls.merge(df_map, left_on="name", right_on="onet", how="inner"), then
\* rename(columns={"bgtocc": "bgtOccInfo"})
MergeBridge(bls, map) ==
    Concat([i \in DOMAIN bls |->
        LET m == Matching(map, "onet", bls[i].name)
        IN  [j \in DOMAIN m |->
                [name |-> bls[i].name, employmentGrowth |-> bls[i].employmentGrowth,
                 onet |-> m[j].onet, bgtOccInfo |-> m[j].bgtocc]]])

\* Mutant of LabelKey: the label compared as stored, not lowercased
LabelKey_asStored(v) == v

\* occu["bgtOccInfo"].str.lower(), one value
LabelKey(v) == StrLower(v)

\* occu["bgtOccInfo_lower"] = occu["bgtOccInfo"].str.lower(): the assignment
\* is made on the frame the caller passed in
AddLowerColumn(frame) ==
    [columns |-> frame.columns \cup {"bgtOccInfo_lower"},
     rows |-> [i \in DOMAIN frame.rows |->
                 [id |-> frame.rows[i].id, name |-> frame.rows[i].name,
                  bgtOccInfo |-> frame.rows[i].bgtOccInfo,
                  employmentGrowth |-> frame.rows[i].employmentGrowth,
                  bgtOccInfo_lower |-> LabelKey(frame.rows[i].bgtOccInfo)]]]

\* The columns of one row of the second merge, with pandas' _x/_y suffixes
JoinedRow(l, r) ==
    [id |-> l.id, name_x |-> l.name, bgtOccInfo_x |-> l.bgtOccInfo,
     employmentGrowth_x |-> l.employmentGrowth, bgtOccInfo_lower |-> l.bgtOccInfo_lower,
     name_y |-> r.name, employmentGrowth_y |-> r.employmentGrowth,
     onet |-> r.onet, bgtOccInfo_y |-> r.bgtOccInfo]

MissingRight == [name |-> NaN, employmentGrowth |-> NaNf, onet |-> NaN, bgtOccInfo |-> NaN]

\* Mutant of MergeOccu: how="inner"
MergeOccu_inner(rows, step1) ==
    Concat([i \in DOMAIN rows |->
        LET m == Matching(step1, "bgtOccInfo", rows[i].bgtOccInfo_lower)
        IN  [j \in DOMAIN m |-> JoinedRow(rows[i], m[j])]])

\* Mutant of MergeOccu: occu.join(df), which pairs the rows by position
MergeOccu_byPosition(rows, step1) ==
    [i \in DOMAIN rows |->
        JoinedRow(rows[i], IF i \in DOMAIN step1 THEN step1[i] ELSE MissingRight)]

\* occu.merge(df, how="left", left_on="bgtOccInfo_lower", right_on="bgtOccInfo"):
\* every occupation row in order, once per step-1 row of its key, or once
\* with the step-1 columns missing
MergeOccu(rows, step1) ==
    Concat([i \in DOMAIN rows |->
        LET m == Matching(step1, "bgtOccInfo", rows[i].bgtOccInfo_lower)
        IN  IF m = <<>> THEN <<JoinedRow(rows[i], MissingRight)>>
            ELSE [j \in DOMAIN m |-> JoinedRow(rows[i], m[j])]])

\* Mutant of DropRename: the occupations table's own growth column kept
DropRename_keepOwnGrowth(t) ==
    [i \in DOMAIN t |->
        [id |-> t[i].id, name |-> t[i].name_x, bgtOccInfo |-> t[i].bgtOccInfo_x,
         employmentGrowth |-> t[i].employmentGrowth_x, ONET_name |-> t[i].onet]]

\* df.drop([name_y, employmentGrowth_x, bgtOccInfo_lower, bgtOccInfo_y]), then
\* rename(name_x -> name, employmentGrowth_y -> employmentGrowth,
\* onet -> ONET_name, bgtOccInfo_x -> bgtOccInfo)
DropRename(t) ==
    [i \in DOMAIN t |->
        [id |-> t[i].id, name |-> t[i].name_x, bgtOccInfo |-> t[i].bgtOccInfo_x,
         employmentGrowth |-> t[i].employmentGrowth_y, ONET_name |-> t[i].onet]]

\* The table merge_data returns
Reconciled(frame, bls, map) ==
    DropRename(MergeOccu(AddLowerColumn(frame).rows, MergeBridge(bls, map)))

merge_data ==
    /\ pc = "merge_data"
    /\ occu' = AddLowerColumn(occu)
    /\ df' = Reconciled(occu, df_bls, df_map)
    /\ pc' = "done"
    /\ UNCHANGED <<df_bls_raw, df_onet_map, df_bls, response, df_map, err>>

InitMerge ==
    /\ pc = "merge_data"
    /\ df_bls_raw = NoTable
    /\ df_onet_map = NoTable
    /\ df_bls \in SeqsUpTo(GrowthRowPool, MaxGrowthRows)
    /\ response = NoResponse
    /\ df_map \in SeqsUpTo(BridgeRowPool, MaxBridgeRows)
    /\ \E t \in SeqsUpTo(OccuRowPool, MaxOccuRows) : occu = OccuFrame(t)
    /\ df = NoTable
    /\ err = "none"

NextMerge == merge_data

SpecMerge == InitMerge /\ [][NextMerge]_vars

\* ---- claims about merge_data (checked under SpecMerge)
Merged == pc = "done"

Records == DOMAIN occu.rows

\* The rows of the result that belong to occupation record i
RowsOf(i) == {k \in DOMAIN df : df[k].id = i}

GrowthsOf(i) == {df[k].employmentGrowth : k \in RowsOf(i)}

\* The pairs (growth row, bridge row) that lead to the coarse label `label`:
\* the rows of the step-1 intermediate whose coarse label is its lowercase form
Chain(label) ==
    {p \in (DOMAIN df_bls) \X (DOMAIN df_map) :
        /\ df_bls[p[1]].name = df_map[p[2]].onet
        /\ df_map[p[2]].bgtocc = StrLower(label)}

\* C1 (as stated): the result has exactly as many rows as the occupations
\* table; each occupation record appears exactly once.
C1_RowCountPreserved ==
    Merged =>
        /\ Len(df) = Len(occu.rows)
        /\ \A i \in Records : Cardinality(RowsOf(i)) = 1

\* C2: a record whose lowercased coarse label is the coarse label of no step-1
\* row is in the result, once, with employmentGrowth and ONET_name missing, and
\* merge_data raises nothing.
C2_UnmatchedKept ==
    Merged =>
        /\ err = "none"
        /\ \A i \in Records :
              Chain(occu.rows[i].bgtOccInfo) = {} =>
                 /\ Cardinality(RowsOf(i)) = 1
                 /\ \A k \in RowsOf(i) :
                       /\ df[k].employmentGrowth = NaNf
                       /\ df[k].ONET_name = NaN

\* C2 witness: merge_data has run on a record whose label the bridge has no row
\* for, next to a record that did find a growth figure
C2_Witness ==
    /\ Merged
    /\ \E i \in Records :
          /\ \A b \in DOMAIN df_map : df_map[b].bgtocc # StrLower(occu.rows[i].bgtOccInfo)
          /\ RowsOf(i) # {}
    /\ \E j \in Records : Chain(occu.rows[j].bgtOccInfo) # {}

\* C5: the records that share a coarse label carry the same set of
\* employmentGrowth values in the result.
C5_FanOutConsistent ==
    Merged =>
        \A i, j \in Records :
           occu.rows[i].bgtOccInfo = occu.rows[j].bgtOccInfo => GrowthsOf(i) = GrowthsOf(j)

\* C5 witness: two records share a label that two fine names with different
\* growth figures map to
C5_Witness ==
    /\ Merged
    /\ \E i, j \in Records :
          /\ i # j
          /\ occu.rows[i].bgtOccInfo = occu.rows[j].bgtOccInfo
          /\ \E p, q \in Chain(occu.rows[i].bgtOccInfo) :
                /\ df_bls[p[1]].name # df_bls[q[1]].name
                /\ df_bls[p[1]].employmentGrowth # df_bls[q[1]].employmentGrowth
          /\ Cardinality(GrowthsOf(i)) = 2

\* C7: when the growth table has a row (t, g), the bridge a row (t, c) and a
\* record's coarse label equals c up to letter case, the result has a row for
\* that record with employmentGrowth g and ONET_name t.
C7_CaseInsensitive ==
    Merged =>
        \A g \in DOMAIN df_bls, b \in DOMAIN df_map, i \in Records :
           (/\ df_bls[g].name = df_map[b].onet
            /\ Lower(occu.rows[i].bgtOccInfo) = Lower(df_map[b].bgtocc))
           => \E k \in RowsOf(i) :
                 /\ df[k].employmentGrowth = df_bls[g].employmentGrowth
                 /\ df[k].ONET_name = df_bls[g].name

\* C7 witness: the example of the specification, one growth row (t, 22.0), one
\* bridge row (t, c), two records labelled with c in capitals, both with 22.0
C7_Witness ==
    /\ Merged
    /\ Len(df_bls) = 1 /\ Len(df_map) = 1 /\ Len(occu.rows) = 2
    /\ df_bls[1].name = df_map[1].onet
    /\ df_bls[1].employmentGrowth = "22.0"
    /\ \A i \in Records :
          /\ occu.rows[i].bgtOccInfo # df_map[1].bgtocc
          /\ Lower(occu.rows[i].bgtOccInfo) = df_map[1].bgtocc
          /\ GrowthsOf(i) = {"22.0"}

ResultColumns == {"id", "name", "bgtOccInfo", "employmentGrowth", "ONET_name"}

\* C8: every row of the result carries the record's own name, the record's
\* coarse label as stored, and a growth from the step-1 intermediate: missing
\* when the record has no match, whatever growth the record held before.
C8_CollisionResolved ==
    Merged =>
        \A k \in DOMAIN df :
           LET o == occu.rows[df[k].id]
               c == Chain(o.bgtOccInfo)
           IN  /\ DOMAIN df[k] = ResultColumns
               /\ df[k].name = o.name
               /\ df[k].bgtOccInfo = o.bgtOccInfo
               /\ IF c = {}
                  THEN df[k].employmentGrowth = NaNf
                  ELSE \E p \in c :
                          /\ df[k].employmentGrowth = df_bls[p[1]].employmentGrowth
                          /\ df[k].ONET_name = df_bls[p[1]].name

\* C8 witness: a record that held a growth and finds no match ends with none,
\* and a record that held a growth and has a label in capitals ends with the
\* agency's, under its label as stored
C8_Witness ==
    /\ Merged
    /\ \E k \in DOMAIN df :
          /\ occu.rows[df[k].id].employmentGrowth = "1.0"
          /\ df[k].employmentGrowth = NaNf
    /\ \E k \in DOMAIN df :
          /\ occu.rows[df[k].id].employmentGrowth = "1.0"
          /\ df[k].employmentGrowth = "22.0"
          /\ df[k].bgtOccInfo # Lower(df[k].bgtOccInfo)
          /\ df[k].name # df[k].ONET_name

\* C10 (as stated): merge_data leaves its three inputs as they were: the
\* occupations table keeps its columns and rows, the growth table and the
\* bridge are not modified.
C10_InputsUnchanged ==
    [][merge_data => (occu' = occu /\ df_bls' = df_bls /\ df_map' = df_map)]_vars

====
